---- MODULE Spec2Model ----
(***************************************************************************)
(* Model of the traffic-storage dual write: StorageService.upload_metadata *)
(* / download_metadata (src/api/services/storage_service.py), the content  *)
(* store client IPFSService (src/api/services/ipfs_service.py) and the     *)
(* ledger client BlockDAGService (src/modules/storage/blockdag.py), whose  *)
(* store_metadata owns the retry loop.                                     *)
(*                                                                         *)
(* Calls are coroutines of one asyncio event loop.  `running` names the    *)
(* call that holds the loop; a call gives the loop up only where the code  *)
(* really suspends: a contended lock, asyncio.sleep, asyncio.to_thread.    *)
(* The web3 and requests calls are synchronous, so the code between two    *)
(* such points runs without any other call being scheduled.  The ledger    *)
(* node (mempool, mining) is the environment and moves at any time.        *)
(***************************************************************************)
EXTENDS Integers, Sequences, FiniteSets, TLC

\* ---------------------------------------------------------------- bounds
NumCalls == 2
MaxFaults == 1
BaseNonce == 0
MaxTimeout == 40
MaxRequests == 3

\* ---------------------------------------------------- program constants
MAX_RETRIES == 7
\* min(2**attempt, 30), wait_for_transaction_receipt(timeout=300),
\* asyncio.sleep(3) after a nonce error, asyncio.sleep(2) in _get_fresh_nonce.
backoff_cap == 30
timeout == 300
nonce_error_sleep == 3
nonce_read_sleep == 2
BLOCKDAG_CHAIN_ID == 1043
min_timestamp == 946684800
\* settings.IPFS_TIMEOUT: int = 30; download_json: min(10, self.timeout).
IPFS_TIMEOUT_DEFAULT == 30
download_timeout_cap == 10
\* The fallback floor 10_000_000_000 wei in units of FallbackUnit wei: the
\* floor itself exceeds the integers of the checker, and in these units
\* floor * 1.5^attempt is still exact for every attempt 0 .. 6.
fallback_floor == 1000000
FallbackUnit == 10000

\* ------------------------------------------------------------ fee inputs
\* Base fees the endpoint reports, in wei, and outcomes of random.random()
\* in units of 1/RandomScale.
BaseFees == {0, 1, 3, 1000}
RandomScale == 1000
Randoms == {0, 500, 999}

Calls == 1 .. NumCalls

\* ------------------------------------------------------- input domains
RecordTypes == {"data", "optimization"}
DeviceIds == {"21"}
Timestamps == {1700000000}
Bodies == {"s1", "s2"}

DATA_TYPE_MAPCollapsed == [t \in RecordTypes |-> 0]

DATA_TYPE_MAP == [t \in RecordTypes |-> IF t = "data" THEN 0 ELSE 1]

VARIABLES
    running,      \* the call holding the event loop, 0 when the loop is free
    nonce_lock,   \* holder of self.nonce_lock, 0 when free
    callers,      \* the calls of the scenario
    inputs,       \* the records the scenario's calls upload
    limited,      \* whether the environment's faults are counted
    budget,       \* faults the environment may still inject when limited
    txs,          \* transactions accepted by the node, in nonce order
    ledger,       \* the contract's records: key -> cid
    ipfs,         \* the content store: the pinned blobs
    pc,           \* position of each call
    rec,          \* the record a call uploads
    cid,          \* the CID the content upload returned
    attempt,      \* loop variable of store_metadata
    nonce,        \* nonce read in the current attempt
    last_error,   \* last_error of store_metadata
    exc,          \* the exception in flight of the current attempt
    txh,          \* index in txs of the transaction whose receipt is awaited
    sres,         \* outcome of store_metadata
    result,       \* outcome of upload_metadata
    issued,       \* history: <<call, value>> for every value the locked read handed out
    seen,         \* history: per call, the classes of its failed attempts
    started,      \* history: per call, the attempts it has begun
    rpc,          \* history: per call, the kinds of ledger RPC store_metadata made
    config,       \* what the service was constructed with: "ok", "no_key", "no_contract"
    dl,   \* outcome of the last download_metadata / fetch_metadata
    waited,       \* seconds each call has spent in the waits of store_metadata
    since_failure, \* of these, the seconds since the call's last failed attempt
    base_gas_price, \* what the endpoint answers to eth.gas_price, in wei
    fee_log,      \* the gas prices computed for attempts 0, 1, ... of one call
    IPFS_TIMEOUT, \* settings.IPFS_TIMEOUT, in seconds
    timeout_log   \* the timeouts of the content store's requests, in order

vars == <<running, nonce_lock, callers, inputs, limited, budget, txs, ledger, ipfs, pc,
          rec, cid, attempt, nonce, last_error, exc, txh, sres, result,
          issued, seen, started, rpc, config, dl, waited, since_failure,
          base_gas_price, fee_log, IPFS_TIMEOUT, timeout_log>>

nodeVars == <<txs, ledger>>
callVars == <<pc, rec, cid, attempt, nonce, last_error, exc, txh, sres, result>>
histVars == <<issued, seen, started, rpc>>
envVars == <<callers, inputs, limited, config>>
feeVars == <<base_gas_price, fee_log>>
ipfsVars == <<IPFS_TIMEOUT, timeout_log>>

\* ------------------------------------------------------------- messages
\* An exception message is the sequence of the phrases it is made of;
\* "x in msg" of the code is membership of a phrase in that sequence.
NoError == <<>>
NoNonce == BaseNonce - 1

MsgNonceTooLow == <<"nonce too low">>
MsgConnection == <<"connection error">>
MsgTimeExhausted == <<"is not in the chain after">>
MsgExecutionReverted == <<"execution reverted">>
MsgOnChainRevert == <<"Transaction reverted or failed on-chain">>

Contains(msg, phrase) == \E i \in DOMAIN msg : msg[i] = phrase

_should_retry(error_msg) ==
    LET retry_errors == {"replacement transaction underpriced",
                         "nonce too low",
                         "already known",
                         "Transaction with the same hash was already imported",
                         "known transaction"}
    IN \E err \in retry_errors : Contains(error_msg, err)

\* ------------------------------------------------------------ the record
Key(r) == <<r.traffic_light_id, r.timestamp, DATA_TYPE_MAP[r.type]>>

Keys == {<<d, t, DATA_TYPE_MAP[ty]>> : d \in DeviceIds, t \in Timestamps,
                                      ty \in RecordTypes}

\* ------------------------------------------------------------- the node
\* get_transaction_count(sender, "pending"): every transaction the node has
\* accepted from the sender counts, mined or not.
PendingCount == BaseNonce + Len(txs)

\* What the environment does wrong costs budget: an endpoint that fails, a
\* receipt that does not come in time.  What follows from the calls' own
\* steps (a stale nonce, a revert because the key is written or being
\* written) is free: the code raises there whatever the environment does.
Fault == /\ limited => budget > 0
         /\ budget' = IF limited THEN budget - 1 ELSE budget

NoFault == UNCHANGED budget

\* Call c has waited s more seconds; the other calls' clocks stand.
Waits(c, s) ==
    /\ waited' = [waited EXCEPT ![c] = @ + s]
    /\ since_failure' = [since_failure EXCEPT ![c] = @ + s]

backoff_timeLinear(k) == backoff_cap * k

backoff_timeUncapped(k) == 2 ^ k

\* min(2**attempt, 30)
backoff_time(k) == IF 2 ^ k < backoff_cap THEN 2 ^ k ELSE backoff_cap

\* A receipt comes at once or just within the timeout.
ReceiptWaits == {0, timeout}

\* store_metadata of call c makes ledger RPCs of these kinds.
MakesRpc(c, kinds) == rpc' = [rpc EXCEPT ![c] = @ \cup kinds]

\* ------------------------------------------------------- content store
\* metadata.dict(): the fields of DataBatch / OptimizationBatch in
\* declaration order; the list field is named after the record type.
ListField(t) == IF t = "data" THEN "sensors" ELSE "optimizations"

FieldOrder(t) == <<"version", "type", "timestamp", "traffic_light_id", ListField(t)>>

Dict(r) ==
    [f \in {FieldOrder(r.type)[i] : i \in 1 .. 5} |->
        CASE f = "version" -> r.version
          [] f = "type" -> r.type
          [] f = "timestamp" -> r.timestamp
          [] f = "traffic_light_id" -> r.traffic_light_id
          [] OTHER -> r.body]

\* json.dumps: the members in the dict's order.
dumps(d, order) == [i \in 1 .. Len(order) |-> <<order[i], d[order[i]]>>]

loadsTruncated(blob) ==
    [f \in {blob[i][1] : i \in 1 .. Len(blob) - 1} |->
        blob[CHOOSE i \in DOMAIN blob : blob[i][1] = f][2]]

\* response.json(): a dict again; the order of the members is lost.
loads(blob) ==
    [f \in {blob[i][1] : i \in DOMAIN blob} |->
        blob[CHOOSE i \in DOMAIN blob : blob[i][1] = f][2]]

\* The body requests.post sends to pinJSONToIPFS.
PinRequest(r) ==
    [pinataMetadata |-> [name |-> "traffic-data.json", timestamp |-> r.timestamp],
     pinataContent |-> dumps(Dict(r), FieldOrder(r.type))]

\* A store that numbers its uploads instead of addressing their content.
IpfsHashSerial(blob) == ToString(<<blob, Cardinality(ipfs)>>)

\* The identifier the store assigns: a function of the pinned bytes alone.
IpfsHash(blob) == ToString(blob)

EmptyCid == ""

upload_jsonUnpinned(store, r) == store

\* IPFSService.upload_json, the store's side: pinataContent is pinned.
upload_json(store, r) == store \cup {PinRequest(r).pinataContent}

\* ---------------------------------------------------------- the contract
getRecord(key) == IF key \in DOMAIN ledger THEN ledger[key] ELSE EmptyCid

\* storeRecord as mined: a key holds at most one CID, a second write reverts.
storeRecordReverts(key) == key \in DOMAIN ledger

PendingWrites(key) == \E i \in DOMAIN txs : txs[i].status = "pending" /\ txs[i].key = key

\* ---------------------------------------------------------- fee estimator
\* multipliers = [1.5, 2.0, 3.0, 5.0, 8.0], in tenths.
multipliers == <<15, 20, 30, 50, 80>>

Min(a, b) == IF a < b THEN a ELSE b

multiplierUncapped(k) ==
    IF k + 1 <= Len(multipliers) THEN multipliers[k + 1]
    ELSE multipliers[Len(multipliers)] + 10 * (k + 1 - Len(multipliers))

\* multipliers[min(attempt, len(multipliers) - 1)], in tenths (the list of
\* the source is indexed from 0).
multiplier(k) == multipliers[Min(k, Len(multipliers) - 1) + 1]

\* int(base_gas_price * multiplier * randomness) with
\* randomness = 1.0 + random.random() * 0.1 and random.random() = r /
\* RandomScale; int() truncates.  The arithmetic is exact here, where the
\* source rounds to double precision.
estimate(k, base, r) ==
    [kind |-> "estimate", attempt |-> k, random |-> r, unit |-> 1,
     value |-> (base * multiplier(k) * (10 * RandomScale + r))
                   \div (100 * RandomScale)]

fallbackCapped(k) ==
    [kind |-> "fallback", attempt |-> k, random |-> 0, unit |-> FallbackUnit,
     value |-> (fallback_floor * 3 ^ Min(k, 4)) \div 2 ^ Min(k, 4)]

\* except Exception: return int(10_000_000_000 * (1.5**attempt)), the value
\* in units of FallbackUnit wei.
fallback(k) ==
    [kind |-> "fallback", attempt |-> k, random |-> 0, unit |-> FallbackUnit,
     value |-> (fallback_floor * 3 ^ k) \div 2 ^ k]

TypeOK ==
    /\ running \in 0 .. NumCalls + 1
    /\ waited \in [Calls -> Nat]
    /\ since_failure \in [Calls -> Nat]
    /\ base_gas_price \in BaseFees
    /\ Len(fee_log) <= MAX_RETRIES
    /\ IPFS_TIMEOUT \in 1 .. MaxTimeout
    /\ Len(timeout_log) <= MaxRequests
    /\ \A i \in DOMAIN fee_log : fee_log[i].attempt = i - 1 /\ fee_log[i].value \in Nat
    /\ nonce_lock \in 0 .. NumCalls
    /\ callers \subseteq Calls
    /\ limited \in BOOLEAN
    /\ budget \in Nat
    /\ pc \in [Calls -> {"idle", "attempt", "lock_wait", "nonce_read", "nonce_sleep",
                         "backoff", "build", "send", "receipt_wait", "except",
                         "retry_sleep", "raise", "done"}]
    /\ attempt \in [Calls -> 0 .. MAX_RETRIES]
    /\ \A i \in DOMAIN txs : txs[i].status \in {"pending", "ok", "reverted"}

\* ------------------------------------------------------------------ Init
\* The records of the scenarios: two of one key with different payloads and
\* one of the other key (a second payload under that key adds no case).
Records == {r \in [version : {"2.0"}, type : RecordTypes, timestamp : Timestamps,
                   traffic_light_id : DeviceIds, body : Bodies] :
               r.type = "optimization" => r.body = "s1"}

\* Payloads the schema admits and validate_data_payload refuses: a
\* timestamp before 2000, a traffic light id that is not a number.
InvalidRecords ==
    [version : {"2.0"}, type : {"data"}, timestamp : {0},
     traffic_light_id : DeviceIds, body : {"s1"}]
    \cup [version : {"2.0"}, type : {"data"}, timestamp : Timestamps,
          traffic_light_id : {"tl-21"}, body : {"s1"}]

\* re.match(r'^\d+$', s) on the identifiers of the model.
IsNumber(s) == s \in {"21"}

\* validate_timestamp; every timestamp of the model lies below
\* max_timestamp = 4102444800.
validate_timestamp(t) == t >= min_timestamp

validate_data_payloadLax(d) == [kind |-> "return", msg |-> NoError]

\* validate_data_payload: on a ValueError it evaluates
\* `raise ValidationError(...)`, a name the module does not define.
validate_data_payload(d) ==
    IF /\ {"version", "type", "timestamp", "traffic_light_id"} \subseteq DOMAIN d
       /\ IsNumber(d["traffic_light_id"])
       /\ validate_timestamp(d["timestamp"])
       /\ d["type"] \in DOMAIN DATA_TYPE_MAP
       /\ d["type"] = "data" => "sensors" \in DOMAIN d
    THEN [kind |-> "return", msg |-> NoError]
    ELSE [kind |-> "raise", msg |-> <<"name 'ValidationError' is not defined">>]

Valid(r) == validate_data_payload(Dict(r)).kind = "return"

NoRecord == [version |-> "", type |-> "data", timestamp |-> 0,
             traffic_light_id |-> "", body |-> ""]

NoResult == [kind |-> "none", type |-> "", msg |-> NoError, cid |-> EmptyCid]

NoOutcome == [kind |-> "none", type |-> "", msg |-> NoError, status |-> 0, tx |-> 0]

NoDownload == [op |-> "none", key |-> <<>>, kind |-> "none", msg |-> NoError,
               cid |-> EmptyCid, data |-> <<>>, rpcs |-> <<>>, gets |-> <<>>]

InitCommon ==
    /\ running = 0
    /\ nonce_lock = 0
    /\ waited = [c \in Calls |-> 0]
    /\ since_failure = [c \in Calls |-> 0]
    /\ txs = <<>>
    /\ ledger = <<>>
    /\ ipfs = {}
    /\ pc = [c \in Calls |-> "idle"]
    /\ rec = [c \in Calls |-> NoRecord]
    /\ cid = [c \in Calls |-> EmptyCid]
    /\ attempt = [c \in Calls |-> 0]
    /\ nonce = [c \in Calls |-> NoNonce]
    /\ last_error = [c \in Calls |-> NoError]
    /\ exc = [c \in Calls |-> NoError]
    /\ txh = [c \in Calls |-> 0]
    /\ sres = [c \in Calls |-> NoOutcome]
    /\ result = [c \in Calls |-> NoResult]
    /\ issued = {}
    /\ seen = [c \in Calls |-> {}]
    /\ started = [c \in Calls |-> 0]
    /\ rpc = [c \in Calls |-> {}]
    /\ dl = NoDownload

\* NumCalls concurrent uploads, the environment failing at most MaxFaults times.
InitConcurrent ==
    /\ InitCommon /\ callers = Calls /\ inputs = Records \cup InvalidRecords
    /\ limited = TRUE /\ budget = MaxFaults
    /\ config = "ok"

\* One upload, the environment free to fail every step of every attempt.
InitRetry ==
    /\ InitCommon /\ callers = {1}
    /\ inputs = {r \in Records : r.type = "data" /\ r.body = "s1"}
    /\ limited = FALSE /\ budget = 0
    /\ config = "ok"

\* The service was constructed without private key or without contract
\* address; the environment does not fail.
InitUnconfigured ==
    /\ InitCommon /\ callers = Calls
    /\ inputs = {r \in Records : r.type = "data" /\ r.body = "s1"}
    /\ limited = TRUE /\ budget = 0
    /\ config \in {"no_key", "no_contract"}

\* No fee has been computed; the fee the endpoint reports plays no part in
\* what the node accepts.
NoFees == base_gas_price = 0 /\ fee_log = <<>>

\* The content store's service has the timeout of the settings' default and
\* its requests are not recorded.
NoRequests == IPFS_TIMEOUT = IPFS_TIMEOUT_DEFAULT /\ timeout_log = <<>>

Init == (InitConcurrent \/ InitRetry \/ InitUnconfigured) /\ NoFees /\ NoRequests

\* The fee estimator alone: a service without calls, an endpoint with some
\* base fee.
InitFee ==
    /\ InitCommon /\ callers = {} /\ inputs = {} /\ limited = TRUE /\ budget = 0
    /\ config = "ok"
    /\ base_gas_price \in BaseFees /\ fee_log = <<>>
    /\ NoRequests

NotConfiguredKeyOnly(cfg) == cfg = "no_key"

\* if not self.contract or not self.private_key
NotConfigured(cfg) == cfg \in {"no_key", "no_contract"}

NotConfiguredError ==
    [kind |-> "raise", type |-> "BlockDAGError",
     msg |-> <<"BlockDAG contract not configured or private key missing">>,
     status |-> 0, tx |-> 0]

\* --------------------------------------------------- upload_metadata entry
\* Calls are numbered in the order in which they arrive.
Arrives(c) ==
    /\ running = 0 /\ c \in callers /\ pc[c] = "idle"
    /\ \A d \in callers : d < c => pc[d] # "idle"

\* upload_metadata up to the first attempt of store_metadata: validation,
\* content upload, then the ledger write with the CID the upload returned.
UploadStart(c) ==
    /\ Arrives(c)
    /\ ~NotConfigured(config)
    /\ \E r \in inputs :
        /\ Valid(r)
        /\ rec' = [rec EXCEPT ![c] = r]
        /\ ipfs' = upload_json(ipfs, r)
        /\ cid' = [cid EXCEPT ![c] = IpfsHash(PinRequest(r).pinataContent)]
    /\ attempt' = [attempt EXCEPT ![c] = 0]
    /\ last_error' = [last_error EXCEPT ![c] = NoError]
    /\ pc' = [pc EXCEPT ![c] = "attempt"]
    /\ running' = c
    /\ NoFault
    /\ MakesRpc(c, {"status", "balance"})
    /\ UNCHANGED <<nonce_lock, nodeVars, nonce, exc, txh, sres, result, issued, seen, started,
                   envVars, dl>>
    /\ UNCHANGED <<waited, since_failure>>
    /\ UNCHANGED <<feeVars, ipfsVars>>

\* validate_data_payload raises: upload_metadata raises UploadError before
\* it has called either store.
UploadInvalid(c) ==
    /\ Arrives(c)
    /\ Fault
    /\ \E r \in inputs :
        /\ ~Valid(r)
        /\ rec' = [rec EXCEPT ![c] = r]
        /\ result' = [result EXCEPT ![c] =
                        [kind |-> "raise", type |-> "UploadError",
                         msg |-> <<"Upload failed">>
                                   \o validate_data_payload(Dict(r)).msg,
                         cid |-> EmptyCid]]
    /\ pc' = [pc EXCEPT ![c] = "done"]
    /\ UNCHANGED <<running, nonce_lock, nodeVars, ipfs, cid, attempt, nonce,
                   last_error, exc, txh, sres, histVars, envVars, dl>>
    /\ UNCHANGED <<waited, since_failure>>
    /\ UNCHANGED <<feeVars, ipfsVars>>

\* store_metadata raises at its first statement: the content is pinned, the
\* ledger is not called.
UploadNotConfigured(c) ==
    /\ Arrives(c)
    /\ NotConfigured(config)
    /\ \E r \in inputs :
        /\ Valid(r)
        /\ rec' = [rec EXCEPT ![c] = r]
        /\ ipfs' = upload_json(ipfs, r)
        /\ cid' = [cid EXCEPT ![c] = IpfsHash(PinRequest(r).pinataContent)]
    /\ sres' = [sres EXCEPT ![c] = NotConfiguredError]
    /\ result' = [result EXCEPT ![c] =
                    [kind |-> "raise", type |-> "UploadError",
                     msg |-> <<"Upload failed">> \o NotConfiguredError.msg,
                     cid |-> EmptyCid]]
    /\ pc' = [pc EXCEPT ![c] = "done"]
    /\ NoFault
    /\ UNCHANGED <<running, nonce_lock, nodeVars, attempt, nonce, last_error, exc,
                   txh, histVars, envVars, dl>>
    /\ UNCHANGED <<waited, since_failure>>
    /\ UNCHANGED <<feeVars, ipfsVars>>

\* An orchestrator that goes on to the ledger write when the content
\* upload has failed.
UploadContentFailsGoesOn(c) ==
    /\ Arrives(c)
    /\ Fault
    /\ \E r \in inputs : Valid(r) /\ rec' = [rec EXCEPT ![c] = r]
    /\ result' = [result EXCEPT ![c] =
                    [kind |-> "raise", type |-> "UploadError",
                     msg |-> <<"Upload failed", "Failed to upload to Pinata">>,
                     cid |-> EmptyCid]]
    /\ pc' = [pc EXCEPT ![c] = "attempt"]
    /\ running' = c
    /\ MakesRpc(c, {"status", "balance"})
    /\ UNCHANGED <<nonce_lock, nodeVars, ipfs, cid, attempt, nonce,
                   last_error, exc, txh, sres, issued, seen, started, envVars, dl>>
    /\ UNCHANGED <<waited, since_failure>>
    /\ UNCHANGED <<feeVars, ipfsVars>>

\* upload_json raises IPFSError: upload_metadata raises UploadError, the
\* ledger is never called.
UploadContentFails(c) ==
    /\ Arrives(c)
    /\ Fault
    /\ \E r \in inputs : Valid(r) /\ rec' = [rec EXCEPT ![c] = r]
    /\ result' = [result EXCEPT ![c] =
                    [kind |-> "raise", type |-> "UploadError",
                     msg |-> <<"Upload failed", "Failed to upload to Pinata">>,
                     cid |-> EmptyCid]]
    /\ pc' = [pc EXCEPT ![c] = "done"]
    /\ UNCHANGED <<running, nonce_lock, nodeVars, ipfs, cid, attempt, nonce,
                   last_error, exc, txh, sres, histVars, envVars, dl>>
    /\ UNCHANGED <<waited, since_failure>>
    /\ UNCHANGED <<feeVars, ipfsVars>>

\* ------------------------------------------------- store_metadata, the loop
\* store_metadata is left: its locals are gone.
Returned(c) ==
    /\ attempt' = [attempt EXCEPT ![c] = 0]
    /\ nonce' = [nonce EXCEPT ![c] = NoNonce]
    /\ last_error' = [last_error EXCEPT ![c] = NoError]
    /\ txh' = [txh EXCEPT ![c] = 0]

\* A step of the attempt raised: control goes to the except clause.
Raised(c, msg) ==
    /\ exc' = [exc EXCEPT ![c] = msg]
    /\ pc' = [pc EXCEPT ![c] = "except"]
    /\ running' = c

\* async with self.nonce_lock: taken at once when free, else the call waits.
AcquireLock(c) ==
    /\ running = c /\ pc[c] = "attempt"
    /\ started' = [started EXCEPT ![c] = @ + 1]
    /\ IF nonce_lock = 0
       THEN /\ nonce_lock' = c
            /\ pc' = [pc EXCEPT ![c] = "nonce_read"]
            /\ UNCHANGED running
       ELSE /\ pc' = [pc EXCEPT ![c] = "lock_wait"]
            /\ running' = 0
            /\ UNCHANGED nonce_lock
    /\ NoFault
    /\ UNCHANGED <<nodeVars, ipfs, rec, cid, attempt, nonce, last_error, exc, txh,
                   sres, result, issued, seen, rpc, envVars, dl>>
    /\ UNCHANGED <<waited, since_failure>>
    /\ UNCHANGED <<feeVars, ipfsVars>>

LockGranted(c) ==
    /\ running = 0 /\ pc[c] = "lock_wait" /\ nonce_lock = 0
    /\ nonce_lock' = c
    /\ pc' = [pc EXCEPT ![c] = "nonce_read"]
    /\ running' = c
    /\ NoFault
    /\ UNCHANGED <<nodeVars, ipfs, rec, cid, attempt, nonce, last_error, exc, txh,
                   sres, result, histVars, envVars, dl>>
    /\ UNCHANGED <<waited, since_failure>>
    /\ UNCHANGED <<feeVars, ipfsVars>>

NonceReadKeepsLock(c, n) ==
    /\ nonce' = [nonce EXCEPT ![c] = n]
    /\ issued' = issued \cup {<<c, n>>}
    /\ nonce_lock' = nonce_lock
    /\ IF attempt[c] > 0
       THEN pc' = [pc EXCEPT ![c] = "backoff"] /\ running' = 0
       ELSE pc' = [pc EXCEPT ![c] = "build"] /\ running' = c

NonceReadNoBackoff(c, n) ==
    /\ nonce' = [nonce EXCEPT ![c] = n]
    /\ issued' = issued \cup {<<c, n>>}
    /\ nonce_lock' = 0
    /\ pc' = [pc EXCEPT ![c] = "build"] /\ running' = c

\* A service that keeps the nonce it read in an earlier attempt.
NonceReadCached(c, n) ==
    /\ nonce' = [nonce EXCEPT ![c] = IF attempt[c] > 0 /\ @ # NoNonce THEN @ ELSE n]
    /\ issued' = issued \cup {<<c, n>>}
    /\ nonce_lock' = 0
    /\ IF attempt[c] > 0
       THEN pc' = [pc EXCEPT ![c] = "backoff"] /\ running' = 0
       ELSE pc' = [pc EXCEPT ![c] = "build"] /\ running' = c

\* A loop that sleeps its backoff in the first attempt too.
NonceReadAlwaysBackoff(c, n) ==
    /\ nonce' = [nonce EXCEPT ![c] = n]
    /\ issued' = issued \cup {<<c, n>>}
    /\ nonce_lock' = 0
    /\ pc' = [pc EXCEPT ![c] = "backoff"] /\ running' = 0

\* The read returned n: the lock is released, the fee is computed, and an
\* attempt after the first sleeps min(2**attempt, 30) s before it builds.
NonceRead(c, n) ==
    /\ nonce' = [nonce EXCEPT ![c] = n]
    /\ issued' = issued \cup {<<c, n>>}
    /\ nonce_lock' = 0
    /\ IF attempt[c] > 0
       THEN pc' = [pc EXCEPT ![c] = "backoff"] /\ running' = 0
       ELSE pc' = [pc EXCEPT ![c] = "build"] /\ running' = c

\* _get_fresh_nonce, first read.
GetFreshNonce(c) ==
    /\ running = c /\ pc[c] = "nonce_read"
    /\ NonceRead(c, PendingCount)
    /\ NoFault
    /\ MakesRpc(c, {"nonce", "fee"})
    /\ UNCHANGED <<nodeVars, ipfs, rec, cid, attempt, last_error, exc, txh, sres,
                   result, seen, started, envVars, dl>>
    /\ UNCHANGED <<waited, since_failure>>
    /\ UNCHANGED <<feeVars, ipfsVars>>

\* The first read raised: asyncio.sleep(2) with the lock held.
GetFreshNonceFails(c) ==
    /\ running = c /\ pc[c] = "nonce_read"
    /\ Fault
    /\ pc' = [pc EXCEPT ![c] = "nonce_sleep"]
    /\ running' = 0
    /\ MakesRpc(c, {"nonce"})
    /\ UNCHANGED <<nonce_lock, nodeVars, ipfs, rec, cid, attempt, nonce, last_error,
                   exc, txh, sres, result, issued, seen, started, envVars, dl>>
    /\ UNCHANGED <<waited, since_failure>>
    /\ UNCHANGED <<feeVars, ipfsVars>>

\* The second read, after the sleep.
NonceRetry(c) ==
    /\ running = 0 /\ pc[c] = "nonce_sleep"
    /\ NonceRead(c, PendingCount)
    /\ NoFault
    /\ MakesRpc(c, {"nonce", "fee"})
    /\ UNCHANGED <<nodeVars, ipfs, rec, cid, attempt, last_error, exc, txh, sres,
                   result, seen, started, envVars, dl>>
    /\ Waits(c, nonce_read_sleep)
    /\ UNCHANGED <<feeVars, ipfsVars>>

NonceRetryFailsAgain(c) ==
    /\ running = 0 /\ pc[c] = "nonce_sleep"
    /\ Fault
    /\ MakesRpc(c, {"nonce"})
    /\ Waits(c, nonce_read_sleep)
    /\ UNCHANGED <<running, nonce_lock, nodeVars, ipfs, callVars, issued, seen,
                   started, envVars, dl, feeVars, ipfsVars>>

\* A second failure of the read that leaves the lock taken.
NonceRetryFailsKeepsLock(c) ==
    /\ running = 0 /\ pc[c] = "nonce_sleep"
    /\ Fault
    /\ UNCHANGED nonce_lock
    /\ Raised(c, MsgConnection)
    /\ MakesRpc(c, {"nonce"})
    /\ UNCHANGED <<nodeVars, ipfs, rec, cid, attempt, nonce, last_error, txh, sres,
                   result, issued, seen, started, envVars, dl>>
    /\ Waits(c, nonce_read_sleep)
    /\ UNCHANGED <<feeVars, ipfsVars>>

\* The second read raised too: the exception leaves the critical section.
NonceRetryFails(c) ==
    /\ running = 0 /\ pc[c] = "nonce_sleep"
    /\ Fault
    /\ nonce_lock' = 0
    /\ Raised(c, MsgConnection)
    /\ MakesRpc(c, {"nonce"})
    /\ UNCHANGED <<nodeVars, ipfs, rec, cid, attempt, nonce, last_error, txh, sres,
                   result, issued, seen, started, envVars, dl>>
    /\ Waits(c, nonce_read_sleep)
    /\ UNCHANGED <<feeVars, ipfsVars>>

\* asyncio.sleep(backoff_time) is over.
Backoff(c) ==
    /\ running = 0 /\ pc[c] = "backoff"
    /\ pc' = [pc EXCEPT ![c] = "build"]
    /\ running' = c
    /\ NoFault
    /\ UNCHANGED <<nonce_lock, nodeVars, ipfs, rec, cid, attempt, nonce, last_error,
                   exc, txh, sres, result, histVars, envVars, dl>>
    /\ Waits(c, backoff_time(attempt[c]))
    /\ UNCHANGED <<feeVars, ipfsVars>>

SimulationError(e) == <<"Transaction would probably fail">> \o e

\* A dry run that passes whatever the contract holds.
SimulateUnchecked(c) ==
    /\ running = c /\ pc[c] = "build"
    /\ pc' = [pc EXCEPT ![c] = "send"]
    /\ NoFault
    /\ MakesRpc(c, {"simulate"})
    /\ UNCHANGED <<running, nonce_lock, nodeVars, ipfs, rec, cid, attempt, nonce,
                   last_error, exc, txh, sres, result, issued, seen, started, envVars, dl>>
    /\ UNCHANGED <<waited, since_failure>>
    /\ UNCHANGED <<feeVars, ipfsVars>>

\* build_transaction and _simulate_transaction: the dry run passes.
Simulate(c) ==
    /\ running = c /\ pc[c] = "build"
    /\ ~storeRecordReverts(Key(rec[c]))
    /\ pc' = [pc EXCEPT ![c] = "send"]
    /\ NoFault
    /\ MakesRpc(c, {"simulate"})
    /\ UNCHANGED <<running, nonce_lock, nodeVars, ipfs, rec, cid, attempt, nonce,
                   last_error, exc, txh, sres, result, issued, seen, started, envVars, dl>>
    /\ UNCHANGED <<waited, since_failure>>
    /\ UNCHANGED <<feeVars, ipfsVars>>

\* The dry run reverts because the key is written (or, on the pending block,
\* is being written by a transaction not yet mined).
SimulateReverts(c) ==
    /\ running = c /\ pc[c] = "build"
    /\ storeRecordReverts(Key(rec[c])) \/ PendingWrites(Key(rec[c]))
    /\ Raised(c, SimulationError(MsgExecutionReverted))
    /\ NoFault
    /\ MakesRpc(c, {"simulate"})
    /\ UNCHANGED <<nonce_lock, nodeVars, ipfs, rec, cid, attempt, nonce, last_error,
                   txh, sres, result, issued, seen, started, envVars, dl>>
    /\ UNCHANGED <<waited, since_failure>>
    /\ UNCHANGED <<feeVars, ipfsVars>>

\* The dry run fails for a reason of the environment: the endpoint is
\* unreachable, or the contract reverts for a reason other than the key.
SimulateFails(c) ==
    /\ running = c /\ pc[c] = "build"
    /\ Fault
    /\ \E e \in {MsgConnection, MsgExecutionReverted} : Raised(c, SimulationError(e))
    /\ MakesRpc(c, {"simulate"})
    /\ UNCHANGED <<nonce_lock, nodeVars, ipfs, rec, cid, attempt, nonce, last_error,
                   txh, sres, result, issued, seen, started, envVars, dl>>
    /\ UNCHANGED <<waited, since_failure>>
    /\ UNCHANGED <<feeVars, ipfsVars>>

\* sign_transaction and send_raw_transaction: the node accepts the
\* transaction when its nonce is the sender's next one; then the call waits
\* for the receipt in a thread.
Send(c) ==
    /\ running = c /\ pc[c] = "send"
    /\ nonce[c] = PendingCount
    /\ txs' = Append(txs, [call |-> c, key |-> Key(rec[c]), cid |-> cid[c],
                           status |-> "pending"])
    /\ txh' = [txh EXCEPT ![c] = Len(txs) + 1]
    /\ pc' = [pc EXCEPT ![c] = "receipt_wait"]
    /\ running' = 0
    /\ NoFault
    /\ MakesRpc(c, {"send"})
    /\ UNCHANGED <<nonce_lock, ledger, ipfs, rec, cid, attempt, nonce, last_error,
                   exc, sres, result, issued, seen, started, envVars, dl>>
    /\ UNCHANGED <<waited, since_failure>>
    /\ UNCHANGED <<feeVars, ipfsVars>>

\* The nonce was used by a transaction the node already holds.
SendStale(c) ==
    /\ running = c /\ pc[c] = "send"
    /\ nonce[c] < PendingCount
    /\ Raised(c, MsgNonceTooLow)
    /\ NoFault
    /\ MakesRpc(c, {"send"})
    /\ UNCHANGED <<nonce_lock, nodeVars, ipfs, rec, cid, attempt, nonce, last_error,
                   txh, sres, result, issued, seen, started, envVars, dl>>
    /\ UNCHANGED <<waited, since_failure>>
    /\ UNCHANGED <<feeVars, ipfsVars>>

\* The broadcast does not reach the node, or the node answers from a view of
\* the sender's account that is ahead of the one the nonce was read from.
SendFails(c) ==
    /\ running = c /\ pc[c] = "send"
    /\ Fault
    /\ \E e \in {MsgConnection, MsgNonceTooLow} : Raised(c, e)
    /\ MakesRpc(c, {"send"})
    /\ UNCHANGED <<nonce_lock, nodeVars, ipfs, rec, cid, attempt, nonce, last_error,
                   txh, sres, result, issued, seen, started, envVars, dl>>
    /\ UNCHANGED <<waited, since_failure>>
    /\ UNCHANGED <<feeVars, ipfsVars>>

\* The status field of the receipt of a mined transaction.
ReceiptStatusZero(tx) == 0

ReceiptStatus(tx) == IF tx.status = "ok" THEN 1 ELSE 0

ReceiptAcceptedAny(status) == TRUE

\* if receipt.status == 1: return receipt
ReceiptAccepted(status) == status = 1

UploadError(msg) ==
    [kind |-> "raise", type |-> "UploadError", msg |-> <<"Upload failed">> \o msg,
     cid |-> EmptyCid]

\* _prepare_upload_response: the response carries the CID.
UploadResponse(c) ==
    [kind |-> "return", type |-> rec[c].type, msg |-> NoError, cid |-> cid[c]]

\* wait_for_transaction_receipt returned a receipt.
Receipt(c) ==
    /\ running = 0 /\ pc[c] = "receipt_wait"
    /\ txs[txh[c]].status # "pending"
    /\ LET status == ReceiptStatus(txs[txh[c]]) IN
        IF ReceiptAccepted(status)
        THEN /\ sres' = [sres EXCEPT ![c] =
                           [kind |-> "return", type |-> "receipt", msg |-> NoError,
                            status |-> status, tx |-> txh[c]]]
             /\ result' = [result EXCEPT ![c] = UploadResponse(c)]
             /\ pc' = [pc EXCEPT ![c] = "done"]
             /\ Returned(c)
             /\ exc' = [exc EXCEPT ![c] = NoError]
             /\ seen' = [seen EXCEPT ![c] = {}]
             /\ UNCHANGED running
        ELSE /\ Raised(c, MsgOnChainRevert)
             /\ UNCHANGED <<sres, result, attempt, nonce, last_error, txh, seen>>
    /\ NoFault
    /\ MakesRpc(c, {"receipt"})
    /\ UNCHANGED <<nonce_lock, nodeVars, ipfs, rec, cid, issued, started,
                   envVars, dl>>
    /\ \E d \in ReceiptWaits : Waits(c, d)
    /\ UNCHANGED <<feeVars, ipfsVars>>

\* wait_for_transaction_receipt gave up after timeout=300: TimeExhausted.
ReceiptTimeout(c) ==
    /\ running = 0 /\ pc[c] = "receipt_wait"
    /\ txs[txh[c]].status = "pending"
    /\ Fault
    /\ Raised(c, MsgTimeExhausted)
    /\ MakesRpc(c, {"receipt"})
    /\ UNCHANGED <<nonce_lock, nodeVars, ipfs, rec, cid, attempt, nonce, last_error,
                   txh, sres, result, issued, seen, started, envVars, dl>>
    /\ Waits(c, timeout)
    /\ UNCHANGED <<feeVars, ipfsVars>>

\* The spec's classes of an attempt's failure (section 4.4).
Class(error_msg) ==
    IF _should_retry(error_msg) THEN "nonce"
    ELSE IF Contains(error_msg, "connection error")
            \/ Contains(error_msg, "is not in the chain after")
         THEN "transient"
         ELSE "fatal"

\* What the except clause does with the loop, given the message and the
\* attempt: sleep 3 s and continue, continue, or break.
ExceptAbortsFatal(error_msg, k) ==
    IF _should_retry(error_msg) THEN "sleep"
    ELSE IF Contains(error_msg, "connection error")
            \/ Contains(error_msg, "is not in the chain after")
         THEN IF k < MAX_RETRIES - 1 THEN "continue" ELSE "break"
         ELSE "break"

ExceptBreaksEarly(error_msg, k) ==
    IF _should_retry(error_msg) THEN "sleep"
    ELSE IF k < MAX_RETRIES - 2 THEN "continue"
    ELSE "break"

ExceptBreaks(error_msg, k) ==
    IF _should_retry(error_msg) THEN "sleep" ELSE "break"

ExceptNeverSleeps(error_msg, k) ==
    IF k < MAX_RETRIES - 1 THEN "continue" ELSE "break"

ExceptDecision(error_msg, k) ==
    IF _should_retry(error_msg) THEN "sleep"
    ELSE IF k < MAX_RETRIES - 1 THEN "continue"
    ELSE "break"

\* except Exception as e
Except(c) ==
    /\ running = c /\ pc[c] = "except"
    /\ last_error' = [last_error EXCEPT ![c] = exc[c]]
    /\ seen' = [seen EXCEPT ![c] = @ \cup {Class(exc[c])}]
    /\ LET d == ExceptDecision(exc[c], attempt[c]) IN
        /\ pc' = [pc EXCEPT ![c] = CASE d = "sleep" -> "retry_sleep"
                                     [] d = "continue" -> "attempt"
                                     [] OTHER -> "raise"]
        /\ attempt' = [attempt EXCEPT ![c] = IF d = "continue" THEN @ + 1 ELSE @]
        /\ running' = IF d = "sleep" THEN 0 ELSE c
    /\ NoFault
    /\ UNCHANGED <<nonce_lock, nodeVars, ipfs, rec, cid, nonce, exc, txh, sres,
                   result, issued, started, rpc, envVars, dl>>
    /\ UNCHANGED waited
    /\ since_failure' = [since_failure EXCEPT ![c] = 0]
    /\ UNCHANGED <<feeVars, ipfsVars>>

\* asyncio.sleep(3) is over; continue: the next iteration, if there is one.
RetrySleep(c) ==
    /\ running = 0 /\ pc[c] = "retry_sleep"
    /\ IF attempt[c] < MAX_RETRIES - 1
       THEN /\ attempt' = [attempt EXCEPT ![c] = @ + 1]
            /\ pc' = [pc EXCEPT ![c] = "attempt"]
       ELSE /\ pc' = [pc EXCEPT ![c] = "raise"]
            /\ UNCHANGED attempt
    /\ running' = c
    /\ NoFault
    /\ UNCHANGED <<nonce_lock, nodeVars, ipfs, rec, cid, nonce, last_error, exc,
                   txh, sres, result, histVars, envVars, dl>>
    /\ Waits(c, nonce_error_sleep)
    /\ UNCHANGED <<feeVars, ipfsVars>>

ExhaustedError(last) ==
    [kind |-> "raise", type |-> "BlockDAGError",
     msg |-> <<"Failed to send transaction after retries", "Last error">> \o last,
     status |-> 0, tx |-> 0]

\* After the loop: raise BlockDAGError(... Last error: {last_error}), which
\* upload_metadata wraps in UploadError.
RaiseExhausted(c) ==
    /\ running = c /\ pc[c] = "raise"
    /\ sres' = [sres EXCEPT ![c] = ExhaustedError(last_error[c])]
    /\ result' = [result EXCEPT ![c] = UploadError(ExhaustedError(last_error[c]).msg)]
    /\ pc' = [pc EXCEPT ![c] = "done"]
    /\ Returned(c)
    /\ running' = 0
    /\ NoFault
    /\ UNCHANGED <<nonce_lock, nodeVars, ipfs, rec, cid, exc, histVars, envVars, dl>>
    /\ UNCHANGED <<waited, since_failure>>
    /\ UNCHANGED <<feeVars, ipfsVars>>

\* ------------------------------------------------------------- the ledger
\* The node mines the sender's oldest pending transaction.
Mine ==
    /\ running = 0
    /\ \E i \in DOMAIN txs :
        /\ txs[i].status = "pending"
        /\ \A j \in 1 .. i - 1 : txs[j].status # "pending"
        /\ IF storeRecordReverts(txs[i].key)
           THEN /\ txs' = [txs EXCEPT ![i].status = "reverted"]
                /\ UNCHANGED ledger
           ELSE /\ txs' = [txs EXCEPT ![i].status = "ok"]
                /\ ledger' = (txs[i].key :> txs[i].cid) @@ ledger
    /\ NoFault
    /\ UNCHANGED <<running, nonce_lock, ipfs, callVars, histVars, envVars, dl>>
    /\ UNCHANGED <<waited, since_failure>>
    /\ UNCHANGED <<feeVars, ipfsVars>>

\* ------------------------------------------------------------ the read path
Requests == [traffic_light_id : DeviceIds, timestamp : Timestamps, type : RecordTypes]

\* str.strip() on the identifiers the contract can hold.
strip(s) == IF s = " " THEN "" ELSE s

BlockDAGError(msg) == [kind |-> "raise", type |-> "BlockDAGError", msg |-> msg,
                       cid |-> EmptyCid]

fetch_metadataUnchecked(key, node) ==
    IF config = "no_contract"
    THEN BlockDAGError(<<"BlockDAG contract not configured">>)
    ELSE IF node = "not_connected"
    THEN BlockDAGError(<<"Not connected to BlockDAG network">>)
    ELSE IF node = "no_code"
    THEN BlockDAGError(<<"Contract not found at address">>)
    ELSE [kind |-> "return", type |-> "", msg |-> NoError, cid |-> getRecord(key)]

\* BlockDAGService.fetch_metadata; node is what the endpoint does.
fetch_metadata(key, node) ==
    IF config = "no_contract"
    THEN BlockDAGError(<<"BlockDAG contract not configured">>)
    ELSE IF node = "not_connected"
    THEN BlockDAGError(<<"Not connected to BlockDAG network">>)
    ELSE IF node = "no_code"
    THEN BlockDAGError(<<"Contract not found at address">>)
    ELSE LET c == getRecord(key) IN
         IF c = EmptyCid \/ strip(c) = ""
         THEN BlockDAGError(<<"Record not found">>)
         ELSE [kind |-> "return", type |-> "", msg |-> NoError, cid |-> c]

fetch_rpcsReadFirst(key, node) ==
    IF config = "no_contract" THEN <<>>
    ELSE IF node = "not_connected" THEN <<"getRecord", "is_connected">>
    ELSE <<"getRecord", "is_connected", "get_code">>

\* The calls fetch_metadata makes on the endpoint, in order.
fetch_rpcs(key, node) ==
    IF config = "no_contract" THEN <<>>
    ELSE IF node = "not_connected" THEN <<"is_connected">>
    ELSE IF node = "no_code" THEN <<"is_connected", "get_code">>
    ELSE <<"is_connected", "get_code", "getRecord">>

\* The calls of the service's fetch_metadata: the read alone.
service_fetch_rpcs(key, node) ==
    IF config = "no_contract" THEN <<>> ELSE <<"getRecord">>

\* fetch_metadata of the service StorageService is built on
\* (api/services/blockdag_service.py): what getRecord returns is passed on
\* as it is.
service_fetch_metadata(key, node) ==
    IF config = "no_contract"
    THEN BlockDAGError(<<"BlockDAG contract not configured">>)
    ELSE IF node # "ok"
    THEN BlockDAGError(<<"Failed to fetch metadata">>)
    ELSE [kind |-> "return", type |-> "", msg |-> NoError, cid |-> getRecord(key)]

\* IPFSService.download_json; gateway is what the gateway does.
download_json(c, gateway) ==
    IF gateway = "timeout"
    THEN [kind |-> "raise", type |-> "IPFSError",
          msg |-> <<"Download timeout from Pinata gateway">>, data |-> <<>>]
    ELSE IF \E blob \in ipfs : IpfsHash(blob) = c
    THEN [kind |-> "return", type |-> "", msg |-> NoError,
          data |-> loads(CHOOSE blob \in ipfs : IpfsHash(blob) = c)]
    ELSE [kind |-> "raise", type |-> "IPFSError",
          msg |-> <<"Failed to download from Pinata gateway">>, data |-> <<>>]

DownloadError(msg) == <<"Download failed">> \o msg

download_metadataUnwrapped(request, node, gateway) ==
    LET key == <<request.traffic_light_id, request.timestamp,
                 DATA_TYPE_MAP[request.type]>>
        f == service_fetch_metadata(key, node)
    IN [op |-> "download", key |-> key, kind |-> f.kind, msg |-> f.msg,
        cid |-> f.cid, data |-> <<>>, rpcs |-> service_fetch_rpcs(key, node),
        gets |-> <<>>]

\* StorageService.download_metadata; gets are the CIDs download_json asked
\* the gateway for.
download_metadata(request, node, gateway) ==
    LET key == <<request.traffic_light_id, request.timestamp,
                 DATA_TYPE_MAP[request.type]>>
        f == service_fetch_metadata(key, node)
    IN IF f.kind = "raise"
       THEN [op |-> "download", key |-> key, kind |-> "raise",
             msg |-> DownloadError(f.msg), cid |-> EmptyCid, data |-> <<>>,
             rpcs |-> service_fetch_rpcs(key, node), gets |-> <<>>]
       ELSE LET d == download_json(f.cid, gateway) IN
            IF d.kind = "raise"
            THEN [op |-> "download", key |-> key, kind |-> "raise",
                  msg |-> DownloadError(d.msg), cid |-> f.cid, data |-> <<>>,
                  rpcs |-> service_fetch_rpcs(key, node), gets |-> <<f.cid>>]
            ELSE [op |-> "download", key |-> key, kind |-> "return",
                  msg |-> NoError, cid |-> f.cid, data |-> d.data,
                  rpcs |-> service_fetch_rpcs(key, node), gets |-> <<f.cid>>]

NodeStates == {"ok", "not_connected", "no_code"}
GatewayStates == {"ok", "timeout"}

\* The handler holds the loop from the request to the response.
Downloader == NumCalls + 1

\* The client asks for a record while none of its uploads is under way.
ClientIdle == running = 0 /\ \A c \in Calls : pc[c] \in {"idle", "done"}

Download(request) ==
    /\ ClientIdle
    /\ \E node \in NodeStates, gateway \in GatewayStates :
        /\ IF node = "ok" /\ gateway = "ok" THEN NoFault ELSE Fault
        /\ node # "ok" => gateway = "ok"
        /\ dl' = download_metadata(request, node, gateway)
    /\ running' = Downloader
    /\ UNCHANGED <<nonce_lock, nodeVars, ipfs, callVars, histVars, envVars>>
    /\ UNCHANGED <<waited, since_failure>>
    /\ UNCHANGED <<feeVars, ipfsVars>>

\* fetch_metadata called on its own.
Fetch(request) ==
    /\ ClientIdle
    /\ \E node \in NodeStates :
        /\ IF node = "ok" THEN NoFault ELSE Fault
        /\ LET key == <<request.traffic_light_id, request.timestamp,
                        DATA_TYPE_MAP[request.type]>>
               f == fetch_metadata(key, node)
           IN dl' = [op |-> "fetch", key |-> key, kind |-> f.kind, msg |-> f.msg,
                     cid |-> f.cid, data |-> <<>>, rpcs |-> fetch_rpcs(key, node),
                     gets |-> <<>>]
    /\ running' = Downloader
    /\ UNCHANGED <<nonce_lock, nodeVars, ipfs, callVars, histVars, envVars>>
    /\ UNCHANGED <<waited, since_failure>>
    /\ UNCHANGED <<feeVars, ipfsVars>>

\* What the endpoint does during a health check: is_connected() answers
\* yes or no or raises, the chain id read returns an id or raises, get_code
\* returns code or none or raises.
HealthEnvs == [is_connected : {"yes", "no", "raise"},
               chain_read : {"ok", "raise"},
               chain_id : {BLOCKDAG_CHAIN_ID, 1},
               code : {"present", "absent", "raise"}]

check_connectivityStrict(node) ==
    /\ node.is_connected = "yes"
    /\ node.chain_read = "ok" /\ node.chain_id = BLOCKDAG_CHAIN_ID
    /\ config # "no_contract" => node.code = "present"

\* BlockDAGService.check_connectivity: the value returned.
check_connectivity(node) ==
    IF node.is_connected # "yes" THEN FALSE
    ELSE IF node.chain_read = "raise" THEN FALSE
    ELSE IF node.chain_id # BLOCKDAG_CHAIN_ID THEN FALSE
    ELSE IF config # "no_contract" /\ node.code = "absent" THEN FALSE
    ELSE TRUE

\* The health check of the server's startup, before any upload.
CheckHealth ==
    /\ running = 0 /\ \A c \in Calls : pc[c] = "idle"
    /\ \E node \in HealthEnvs :
        /\ IF node.is_connected = "yes" /\ node.chain_read = "ok"
              /\ node.chain_id = BLOCKDAG_CHAIN_ID /\ node.code = "present"
           THEN NoFault ELSE Fault
        /\ dl' = [NoDownload EXCEPT !.op = "health", !.kind = "return",
                     !.data = [node |-> node, value |-> check_connectivity(node)]]
    /\ running' = Downloader
    /\ UNCHANGED <<nonce_lock, nodeVars, ipfs, callVars, histVars, envVars>>
    /\ UNCHANGED <<waited, since_failure>>
    /\ UNCHANGED <<feeVars, ipfsVars>>

\* The response is delivered.
Respond ==
    /\ running = Downloader
    /\ dl' = NoDownload
    /\ running' = 0
    /\ NoFault
    /\ UNCHANGED <<nonce_lock, nodeVars, ipfs, callVars, histVars, envVars>>
    /\ UNCHANGED <<waited, since_failure>>
    /\ UNCHANGED <<feeVars, ipfsVars>>

\* ------------------------------------------------------------------ Next
Next ==
    \/ \E c \in Calls : UploadStart(c)
    \/ \E c \in Calls : UploadContentFails(c)
    \/ \E c \in Calls : AcquireLock(c)
    \/ \E c \in Calls : LockGranted(c)
    \/ \E c \in Calls : GetFreshNonce(c)
    \/ \E c \in Calls : GetFreshNonceFails(c)
    \/ \E c \in Calls : NonceRetry(c)
    \/ \E c \in Calls : NonceRetryFails(c)
    \/ \E c \in Calls : Backoff(c)
    \/ \E c \in Calls : Simulate(c)
    \/ \E c \in Calls : SimulateReverts(c)
    \/ \E c \in Calls : SimulateFails(c)
    \/ \E c \in Calls : Send(c)
    \/ \E c \in Calls : SendStale(c)
    \/ \E c \in Calls : SendFails(c)
    \/ \E c \in Calls : Receipt(c)
    \/ \E c \in Calls : ReceiptTimeout(c)
    \/ \E c \in Calls : Except(c)
    \/ \E c \in Calls : RetrySleep(c)
    \/ \E c \in Calls : RaiseExhausted(c)
    \/ \E c \in Calls : UploadNotConfigured(c)
    \/ \E c \in Calls : UploadInvalid(c)
    \/ Mine
    \/ \E request \in Requests : Download(request)
    \/ \E request \in Requests : Fetch(request)
    \/ CheckHealth
    \/ Respond

Spec == Init /\ [][Next]_vars

\* ------------------------------------------------- the fee estimator alone
\* _calculate_optimal_gas_price(attempt) of the attempts 0, 1, ... of one
\* store_metadata call; the base fee is read.
CalculateGasPrice ==
    /\ Len(fee_log) < MAX_RETRIES
    /\ \E r \in Randoms :
           fee_log' = Append(fee_log, estimate(Len(fee_log), base_gas_price, r))
    /\ UNCHANGED <<running, nonce_lock, budget, nodeVars, ipfs, callVars, histVars,
                   envVars, dl, waited, since_failure, base_gas_price,
                   ipfsVars>>

\* Reading the base fee raises: the except clause returns the fallback.
CalculateGasPriceFallback ==
    /\ Len(fee_log) < MAX_RETRIES
    /\ fee_log' = Append(fee_log, fallback(Len(fee_log)))
    /\ UNCHANGED <<running, nonce_lock, budget, nodeVars, ipfs, callVars, histVars,
                   envVars, dl, waited, since_failure, base_gas_price,
                   ipfsVars>>

NextFee == CalculateGasPrice \/ CalculateGasPriceFallback

SpecFee == InitFee /\ [][NextFee]_vars

\* =============================================================== properties
\* store_metadata of call c has ended by raising BlockDAGError.
StoreFailed(c) == pc[c] = "done" /\ sres[c].kind = "raise"

\* store_metadata of call c has returned a receipt.
StoreReturned(c) == pc[c] = "done" /\ sres[c].kind = "return"

\* C1: a store_metadata call never starts more than MAX_RETRIES attempts; when
\* every attempt of the call failed with a transient error, the call leaves
\* the loop only after exactly MAX_RETRIES attempts, and the BlockDAGError it
\* raises carries the error of the last attempt.
C1_RetryBound ==
    \A c \in Calls :
        /\ started[c] <= MAX_RETRIES
        /\ (pc[c] \in {"raise", "done"} /\ seen[c] = {"transient"}) =>
               started[c] = MAX_RETRIES
        /\ (StoreFailed(c) /\ seen[c] = {"transient"}) =>
               /\ sres[c].type = "BlockDAGError"
               /\ sres[c].msg = <<"Failed to send transaction after retries",
                                  "Last error">> \o exc[c]
               /\ exc[c] # NoError

C1_Witness ==
    \E c \in Calls : StoreFailed(c) /\ seen[c] = {"transient"}
                      /\ started[c] = MAX_RETRIES /\ exc[c] = MsgTimeExhausted

FatalSimulation == SimulationError(MsgExecutionReverted)

\* C2 (as amended): a dry run that reports a fatal revert fails only its own
\* attempt: the except clause broadcasts nothing and, unless the attempt was
\* the last of the MAX_RETRIES, goes on to the next attempt without sleeping;
\* only after the last attempt does the call leave the loop to raise.
C2_SimulationFailureRetries ==
    [][\A c \in Calls :
          (pc[c] = "except" /\ exc[c] = FatalSimulation /\ pc'[c] # "except") =>
              /\ txs' = txs
              /\ last_error'[c] = FatalSimulation
              /\ IF attempt[c] < MAX_RETRIES - 1
                 THEN pc'[c] = "attempt" /\ attempt'[c] = attempt[c] + 1
                 ELSE pc'[c] = "raise"]_vars

C2_Witness ==
    \E c \in Calls : /\ last_error[c] = FatalSimulation
                      /\ pc[c] = "nonce_read" /\ attempt[c] = 1 /\ started[c] = 2

\* C2 as stated: once the dry run of an attempt has reported a fatal revert,
\* the call starts no further attempt and reads no further nonce.
C2_Original ==
    [][\A c \in Calls :
          last_error[c] = FatalSimulation =>
              started'[c] = started[c] /\ pc'[c] # "nonce_read"]_vars

\* C9 (as amended): a failure of the fatal class does not end the call early:
\* a call that has seen one leaves the loop, like any other failing call,
\* only when it has started all MAX_RETRIES attempts.
C9_FatalClassRetries ==
    \A c \in Calls :
        ("fatal" \in seen[c] /\ (pc[c] = "raise" \/ StoreFailed(c))) =>
            started[c] = MAX_RETRIES

C9_Witness ==
    \E c \in Calls : StoreFailed(c) /\ "fatal" \in seen[c] /\ exc[c] = MsgOnChainRevert

\* C9 as stated: after an attempt has failed with an error of the fatal class
\* the call is out of the loop.
C9_Original ==
    \A c \in Calls :
        (last_error[c] # NoError /\ Class(last_error[c]) = "fatal") => pc[c] = "raise"

\* C10: the receipt store_metadata returns has status 1 and is the receipt of
\* a transaction mined without revert; a call that got a status 0 receipt
\* has not returned because of it: the attempt failed with the on-chain
\* revert error, and the call is retrying or ends in BlockDAGError.
C10_OnlyStatusOne ==
    \A c \in Calls :
        /\ sres[c].kind = "return" =>
               sres[c].status = 1 /\ txs[sres[c].tx].status = "ok"
        /\ exc[c] = MsgOnChainRevert => sres[c].kind \in {"none", "raise"}
        /\ (pc[c] = "done" /\ exc[c] = MsgOnChainRevert) =>
               sres[c].type = "BlockDAGError"

C10_Witness ==
    \E c, d \in Calls : /\ exc[c] = MsgOnChainRevert /\ pc[c] # "except"
                         /\ StoreReturned(d)

\* A call holds the nonce it read from the read to the broadcast.
HoldsNonce(c) == pc[c] \in {"backoff", "build", "send"}

\* C3 as stated, its "no value is issued twice": the locked read never hands
\* to a call a value it has handed to another call.
C3_Original ==
    \A p, q \in issued : p[2] = q[2] => p[1] = q[1]

\* C4 as stated: no two calls that are between the nonce read and the
\* broadcast at the same time have obtained the same value.
C4_Original ==
    \A c, d \in Calls :
        (c # d /\ HoldsNonce(c) /\ HoldsNonce(d)) => nonce[c] # nonce[d]

Request(r) == [traffic_light_id |-> r.traffic_light_id, timestamp |-> r.timestamp,
               type |-> r.type]

\* C5: once upload_metadata(R) has returned, download_metadata for R's key
\* returns, whenever ledger endpoint and gateway answer, and whatever it
\* returns is the dict that was uploaded for R; this holds for the download
\* the client made and for one made in any other state.
C5_RoundTrip ==
    \A c \in Calls :
        result[c].kind = "return" =>
            /\ download_metadata(Request(rec[c]), "ok", "ok").kind = "return"
            /\ \A node \in NodeStates, gateway \in GatewayStates :
                   LET d == download_metadata(Request(rec[c]), node, gateway) IN
                   d.kind = "return" => d.data = Dict(rec[c])
            /\ (dl.op = "download" /\ dl.key = Key(rec[c]) /\ dl.kind = "return") =>
                   dl.data = Dict(rec[c])

C5_Witness ==
    \E c \in Calls : /\ result[c].kind = "return"
                      /\ dl.op = "download" /\ dl.key = Key(rec[c])
                      /\ dl.kind = "return" /\ dl.data = Dict(rec[c])
                      /\ Cardinality(ipfs) = 2

Pinned(c) == \E blob \in ipfs : IpfsHash(blob) = c

\* C6: every transaction broadcast and every ledger entry references a CID
\* whose content is in the content store; a call past the content upload
\* holds the CID of a pinned blob.
C6_ContentFirst ==
    /\ \A i \in DOMAIN txs : Pinned(txs[i].cid)
    /\ \A key \in DOMAIN ledger : Pinned(ledger[key])
    /\ \A c \in Calls : cid[c] # EmptyCid => Pinned(cid[c])

C6_Witness ==
    \E key \in DOMAIN ledger : Pinned(ledger[key]) /\ \E i \in DOMAIN txs : txs[i].status = "pending"

\* C7 as stated: an upload whose content upload succeeded and whose
\* store_metadata failed after all attempts has its blob pinned, and no
\* ledger entry comes from it: none of its transactions was mined with
\* effect.
C7_Original ==
    \A c \in Calls :
        (StoreFailed(c) /\ started[c] = MAX_RETRIES) =>
            /\ Pinned(cid[c])
            /\ \A i \in DOMAIN txs :
                   txs[i].call = c => txs[i].status # "ok"

\* C8: fetch_metadata for a key the ledger does not hold raises BlockDAGError
\* and hands no CID to the caller: "Record not found" when the endpoint
\* answers and the read call is made, the error of the endpoint or of the
\* missing configuration otherwise.
C8_NotFound ==
    /\ \A key \in Keys \ DOMAIN ledger :
           /\ config # "no_contract" =>
                  fetch_metadata(key, "ok") = BlockDAGError(<<"Record not found">>)
           /\ \A node \in NodeStates : fetch_metadata(key, node).kind = "raise"
    /\ (dl.op = "fetch" /\ dl.key \notin DOMAIN ledger) =>
           dl.kind = "raise" /\ dl.cid = EmptyCid

C8_Witness ==
    /\ dl.op = "fetch" /\ dl.key \notin DOMAIN ledger
    /\ dl.msg = <<"Record not found">> /\ DOMAIN ledger # {}

\* C11: with no private key or no contract configured, store_metadata raises
\* BlockDAGError("... not configured or private key missing") and has made
\* no ledger RPC: no node-status or balance check, no nonce read, no fee
\* read, no simulation, no broadcast; no attempt was started and the node
\* holds no transaction.
C11_NotConfigured ==
    config \in {"no_key", "no_contract"} =>
        /\ txs = <<>> /\ issued = {}
        /\ \A c \in Calls :
               /\ rpc[c] = {} /\ started[c] = 0
               /\ pc[c] \in {"idle", "done"}
               /\ pc[c] = "done" =>
                      /\ sres[c] = NotConfiguredError
                      /\ result[c].type = "UploadError"

C11_Witness ==
    /\ config = "no_contract"
    /\ \E c \in Calls : pc[c] = "done" /\ sres[c].kind = "raise" /\ rpc[c] = {}

Made(rpcs, call) == \E i \in DOMAIN rpcs : rpcs[i] = call

\* C12: with a contract configured, fetch_metadata raises "Not connected to
\* BlockDAG network" when the endpoint is unreachable and "Contract not
\* found at address" when the address holds no code, for every key, written
\* or not; in both cases getRecord is not among the calls it made.
C12_EndpointChecks ==
    /\ config # "no_contract" =>
           \A key \in Keys :
               /\ fetch_metadata(key, "not_connected") =
                      BlockDAGError(<<"Not connected to BlockDAG network">>)
               /\ fetch_metadata(key, "no_code") =
                      BlockDAGError(<<"Contract not found at address">>)
               /\ ~Made(fetch_rpcs(key, "not_connected"), "getRecord")
               /\ ~Made(fetch_rpcs(key, "no_code"), "getRecord")
    /\ (dl.op = "fetch" /\ ~Made(dl.rpcs, "get_code")) =>
           dl.kind = "raise" /\ ~Made(dl.rpcs, "getRecord")
    /\ (dl.op = "fetch" /\ dl.msg = <<"Contract not found at address">>) =>
           dl.kind = "raise" /\ ~Made(dl.rpcs, "getRecord") /\ dl.cid = EmptyCid

C12_Witness ==
    /\ dl.op = "fetch" /\ dl.key \in DOMAIN ledger
    /\ dl.msg = <<"Contract not found at address">>

C14_Wrapping ==
    /\ \A c \in Calls :
           /\ pc[c] = "done" => result[c].kind \in {"return", "raise"}
           /\ result[c].kind = "raise" =>
                  result[c].type = "UploadError" /\ result[c].msg[1] = "Upload failed"
           /\ result[c].kind = "return" =>
                  Valid(rec[c]) /\ Pinned(cid[c]) /\ StoreReturned(c)
           /\ StoreFailed(c) => result[c].kind = "raise"
    /\ \A request \in Requests, node \in NodeStates, gateway \in GatewayStates :
           LET key == <<request.traffic_light_id, request.timestamp,
                        DATA_TYPE_MAP[request.type]>>
               f == service_fetch_metadata(key, node)
               d == download_metadata(request, node, gateway)
           IN /\ d.kind \in {"return", "raise"}
              /\ d.kind = "raise" => d.msg[1] = "Download failed"
              /\ (f.kind = "raise" \/ download_json(f.cid, gateway).kind = "raise")
                     => d.kind = "raise"
    /\ dl.op = "download" =>
           /\ dl.kind = "raise" => dl.msg[1] = "Download failed"
           /\ dl.kind = "return" =>
                  /\ dl.cid = getRecord(dl.key) /\ Pinned(dl.cid)
                  /\ dl.data = download_json(dl.cid, "ok").data

C14_Witness ==
    /\ \E c \in Calls : StoreFailed(c) /\ result[c].type = "UploadError"
    /\ dl.op = "download" /\ dl.kind = "raise"
    /\ dl.msg = <<"Download failed", "Download timeout from Pinata gateway">>

\* C17: the step in which an upload with a payload that validation refuses
\* leaves upload_metadata ends the call with an error and changes neither
\* the content store nor the node's transactions nor the ledger; the call
\* has made no ledger RPC and holds no CID.
C17_InvalidLeavesStores ==
    [][\A c \in Calls :
          (pc[c] = "idle" /\ pc'[c] # "idle" /\ rec'[c] \in InvalidRecords) =>
              /\ ipfs' = ipfs /\ txs' = txs /\ ledger' = ledger
              /\ pc'[c] = "done" /\ result'[c].kind = "raise"
              /\ rpc'[c] = {} /\ cid'[c] = EmptyCid /\ started'[c] = 0]_vars

C17_Witness ==
    \E c \in Calls : /\ pc[c] = "done" /\ rec[c].traffic_light_id = "tl-21"
                      /\ result[c].kind = "raise" /\ ledger # <<>>

TxsOf(c) == {i \in DOMAIN txs : txs[i].call = c}
NoncesOf(c) == {p \in issued : p[1] = c}

\* C16: while the environment has failed nothing (the content store answers,
\* the simulation passes, the broadcast is accepted, the receipt has status
\* 1) and no other upload is in flight, the upload of a valid record never
\* starts a second attempt, and once it has ended it has returned the CID
\* after one content upload, one attempt, one nonce read and one broadcast,
\* with the record in the ledger.
C16_HappyPath ==
    \A c \in Calls :
        (/\ config = "ok" /\ limited /\ budget = MaxFaults
         /\ \A o \in Calls \ {c} : pc[o] = "idle") =>
            /\ started[c] <= 1
            /\ Cardinality(TxsOf(c)) <= 1 /\ Cardinality(NoncesOf(c)) <= 1
            /\ pc[c] = "done" =>
                   /\ result[c] = UploadResponse(c) /\ StoreReturned(c)
                   /\ Valid(rec[c]) /\ started[c] = 1
                   /\ Cardinality(TxsOf(c)) = 1 /\ Cardinality(NoncesOf(c)) = 1
                   /\ Cardinality(ipfs) = 1 /\ Pinned(cid[c])
                   /\ Key(rec[c]) \in DOMAIN ledger /\ ledger[Key(rec[c])] = cid[c]
                   /\ rpc[c] = {"status", "balance", "nonce", "fee", "simulate",
                                "send", "receipt"}

C16_Witness ==
    \E c \in Calls :
        /\ config = "ok" /\ limited /\ budget = MaxFaults
        /\ \A o \in Calls \ {c} : pc[o] = "idle"
        /\ pc[c] = "done" /\ result[c].kind = "return" /\ started[c] = 1
        /\ Cardinality(TxsOf(c)) = 1

\* C18 as stated: a network call of an upload is a suspend point, that is,
\* the step in which a call makes network calls makes one of them (the
\* content upload, or one ledger RPC), and is taken by a call that was
\* suspended for its answer with the event loop free for the other calls,
\* not by a call that has held the loop since its previous network call.
C18_Original ==
    [][\A c \in Calls :
          LET ledgerCalls == Cardinality(rpc'[c] \ rpc[c])
              contentCalls == IF pc[c] = "idle" /\ cid'[c] # EmptyCid THEN 1 ELSE 0
          IN ledgerCalls + contentCalls > 0 =>
                 /\ ledgerCalls + contentCalls = 1
                 /\ pc[c] # "idle" => running = 0]_vars

\* C19 as stated: of two uploads for different keys, neither has an attempt
\* fail because of a step the other took outside the nonce critical
\* section: no call comes to its broadcast with a nonce that a transaction
\* of the other call has used since the read, which the node can only
\* refuse as "nonce too low".
C19_Original ==
    \A c, d \in Calls :
        (/\ c # d /\ rec[c] # NoRecord /\ rec[d] # NoRecord
         /\ Key(rec[c]) # Key(rec[d])) =>
            ~ /\ pc[c] = "send"
              /\ \E i \in TxsOf(d) : BaseNonce + i - 1 = nonce[c]

RECURSIVE BackoffTotal(_)
\* The backoff sleeps of attempts 1 .. k together.
BackoffTotal(k) == IF k = 0 THEN 0 ELSE backoff_time(k) + BackoffTotal(k - 1)

\* C20: the seconds a store_metadata call has spent in its own waits (the
\* sleep before the second nonce read, the backoff sleeps, the sleep after
\* a nonce error, the receipt waits) never exceed
\* MAX_RETRIES * (backoff cap + receipt timeout) = 7 * (30 + 300).
C20_WaitBound ==
    \A c \in Calls : waited[c] <= MAX_RETRIES * (backoff_cap + timeout)

\* The longest run: every attempt repeats the nonce read after its sleep,
\* sleeps its backoff and waits for the receipt until the timeout.
C20_Witness ==
    \E c \in Calls :
        /\ StoreFailed(c) /\ started[c] = MAX_RETRIES
        /\ waited[c] = MAX_RETRIES * (nonce_read_sleep + timeout)
                           + BackoffTotal(MAX_RETRIES - 1)

ErrorKind(e) == e.type

\* C22 as stated: for a key never written, the errors fetch_metadata raises
\* when the endpoint answers (not found), when the endpoint is unreachable
\* and when no contract is configured are of pairwise different kinds.
C22_Original ==
    \A key \in Keys \ DOMAIN ledger :
        config = "ok" =>
            LET notFound == fetch_metadata(key, "ok")
                unreachable == fetch_metadata(key, "not_connected")
                misconfigured == BlockDAGError(<<"BlockDAG contract not configured">>)
            IN /\ notFound.kind = "raise" /\ unreachable.kind = "raise"
               /\ ErrorKind(notFound) # ErrorKind(unreachable)
               /\ ErrorKind(notFound) # ErrorKind(misconfigured)
               /\ ErrorKind(unreachable) # ErrorKind(misconfigured)

\* Attempt k + 1 of call c, k >= 0, is about to build its transaction.
Builds(c) == pc[c] = "build" /\ attempt[c] > 0

\* C23: when attempt k + 1 builds its transaction, the call has waited since
\* the failure of attempt k the backoff min(2^(k+1), 30) of the new attempt,
\* the 2 s of a repeated nonce read if there was one, and, after a
\* nonce-class failure only, the 3 s of the except clause before them: a
\* nonce-class failure is retried 3 s later than a transient one, not
\* sooner.
C23_RetryWaits ==
    \A c \in Calls :
        Builds(c) =>
            LET after == IF _should_retry(exc[c]) THEN nonce_error_sleep ELSE 0
            IN since_failure[c] - after - backoff_time(attempt[c])
                   \in {0, nonce_read_sleep}

C23_Witness ==
    \E c \in Calls :
        /\ Builds(c) /\ _should_retry(exc[c])
        /\ since_failure[c] = nonce_error_sleep + backoff_time(attempt[c])

\* C23 as stated: after a nonce-class failure the wait before the next
\* attempt builds is shorter than any wait after a transient failure of the
\* same attempt, which is at least the backoff of the new attempt.
C23_Original ==
    \A c \in Calls :
        (Builds(c) /\ _should_retry(exc[c])) =>
            since_failure[c] < backoff_time(attempt[c])

\* The backoff of attempts 1 .. 6 as the claim lists it.
BackoffSchedule == <<2, 4, 8, 16, 30, 30>>

\* C24: attempt 0 goes from the nonce read to the build without a backoff
\* sleep; the backoff sleep of attempt k >= 1 lasts exactly min(2^k, 30)
\* seconds, which is 2, 4, 8, 16, 30, 30 for k = 1 .. 6, does not decrease
\* with k and does not exceed 30.
C24_Backoff ==
    [][/\ \A k \in 1 .. MAX_RETRIES - 1 :
              /\ backoff_time(k) = BackoffSchedule[k]
              /\ backoff_time(k) <= backoff_cap
              /\ k > 1 => backoff_time(k - 1) <= backoff_time(k)
       /\ \A c \in Calls :
              /\ (pc[c] = "backoff" /\ pc'[c] # "backoff") =>
                     /\ attempt[c] \in 1 .. MAX_RETRIES - 1 /\ pc'[c] = "build"
                     /\ waited'[c] - waited[c] = BackoffSchedule[attempt[c]]
              /\ (pc[c] # "backoff" /\ pc'[c] = "backoff") => attempt[c] >= 1
              /\ (pc[c] # "build" /\ pc'[c] = "build" /\ attempt[c] = 0) =>
                     /\ pc[c] \in {"nonce_read", "nonce_sleep"}
                     /\ waited'[c] - waited[c] \in {0, nonce_read_sleep}]_vars

C24_Witness ==
    \E c \in Calls :
        /\ pc[c] = "build" /\ attempt[c] = MAX_RETRIES - 1
        /\ since_failure[c] = backoff_cap

C26_Original ==
    \A i \in DOMAIN fee_log :
        (i > 1 /\ fee_log[i - 1].kind = "estimate" /\ fee_log[i].kind = "estimate") =>
            fee_log[i - 1].value <= fee_log[i].value

\* C27: when the base fee cannot be read the estimator still returns a fee,
\* 10_000_000_000 * 1.5^attempt wei, which is a whole number for every
\* attempt 0 .. 6, so that truncation removes nothing; it grows strictly
\* with every attempt, also beyond attempt 4, and every attempt of the log
\* has its fee.
C27_Fallback ==
    /\ \A a \in 0 .. MAX_RETRIES - 1 :
           /\ fallback(a).value * 2 ^ a = fallback_floor * 3 ^ a
           /\ fallback(a).kind = "fallback" /\ fallback(a).unit = FallbackUnit
           /\ a > 0 => fallback(a - 1).value < fallback(a).value
    /\ \A i \in DOMAIN fee_log :
           /\ fee_log[i].attempt = i - 1
           /\ fee_log[i].kind = "fallback" =>
                  /\ fee_log[i].value * 2 ^ (i - 1) = fallback_floor * 3 ^ (i - 1)
                  /\ i > 1 /\ fee_log[i - 1].kind = "fallback" =>
                         fee_log[i - 1].value < fee_log[i].value

\* Seven attempts without a readable base fee; the last fee is
\* 10_000_000_000 * 1.5^6 = 113_906_250_000 wei.
C27_Witness ==
    /\ Len(fee_log) = MAX_RETRIES
    /\ \A i \in DOMAIN fee_log : fee_log[i].kind = "fallback"
    /\ fee_log[MAX_RETRIES].value = 11390625

\* The positions a call can go to from position p in its k-th attempt.
StepsFrom(p, k) ==
    CASE p = "idle" -> {"attempt", "done"}
      [] p = "attempt" -> {"nonce_read", "lock_wait"}
      [] p = "lock_wait" -> {"nonce_read"}
      [] p = "nonce_read" -> {"nonce_sleep"} \cup (IF k = 0 THEN {"build"} ELSE {"backoff"})
      [] p = "nonce_sleep" -> {"except"} \cup (IF k = 0 THEN {"build"} ELSE {"backoff"})
      [] p = "backoff" -> {"build"}
      [] p = "build" -> {"send", "except"}
      [] p = "send" -> {"receipt_wait", "except"}
      [] p = "receipt_wait" -> {"done", "except"}
      [] p = "except" -> IF k < MAX_RETRIES - 1 THEN {"attempt", "retry_sleep"}
                         ELSE {"retry_sleep", "raise"}
      [] p = "retry_sleep" -> IF k < MAX_RETRIES - 1 THEN {"attempt"} ELSE {"raise"}
      [] p = "raise" -> {"done"}
      [] OTHER -> {}

\* C28: in every attempt a call goes through nonce read (with the fee
\* estimate), backoff sleep, build and simulation, signing and broadcast,
\* receipt wait, in this order; a transaction of the call joins the node's
\* transactions only in the step from the broadcast position, which is
\* entered only from a simulation that passed; a failure at any step leads
\* to the except clause and from there, while attempts remain, to the start
\* of the next attempt.
C28_StepOrder ==
    [][\A c \in Calls :
          /\ pc'[c] # pc[c] => pc'[c] \in StepsFrom(pc[c], attempt[c])
          /\ TxsOf(c)' # TxsOf(c) =>
                 /\ pc[c] = "send" /\ pc'[c] = "receipt_wait"
                 /\ txs' = Append(txs, txs'[Len(txs')])
          /\ (pc[c] # "send" /\ pc'[c] = "send") =>
                 /\ pc[c] = "build" /\ exc'[c] = exc[c]
                 /\ "simulate" \in rpc'[c]
          /\ (pc[c] # "attempt" /\ pc'[c] = "attempt" /\ pc[c] # "idle") =>
                 attempt'[c] = attempt[c] + 1
          /\ pc'[c] = "except" /\ pc[c] # "except" => exc'[c] # NoError]_vars

\* A call whose first attempt failed before the broadcast and whose second
\* attempt was confirmed: two attempts, one transaction.
C28_Witness ==
    \E c \in Calls :
        /\ StoreReturned(c) /\ started[c] = 2
        /\ Cardinality(TxsOf(c)) = 1 /\ Cardinality(NoncesOf(c)) = 1

\* C29: the call that holds nonce_lock is inside _get_fresh_nonce (at the
\* read or in the sleep before its second read); a call that sleeps in
\* backoff, builds and simulates, broadcasts, waits for a receipt or is in
\* the except clause does not hold it.
C29_LockOnlyOverRead ==
    /\ \A c \in Calls :
           /\ nonce_lock = c <=> pc[c] \in {"nonce_read", "nonce_sleep"}
           /\ pc[c] \in {"backoff", "build", "send", "receipt_wait", "except",
                          "retry_sleep", "raise", "done"} => nonce_lock # c
    /\ nonce_lock \in Calls \cup {0}

\* Two calls wait for their receipts at the same time, the lock is free.
C29_Witness ==
    \E c, d \in Calls :
        /\ c # d /\ pc[c] = "receipt_wait" /\ pc[d] = "receipt_wait"
        /\ txs[txh[c]].status = "pending" /\ txs[txh[d]].status = "pending"
        /\ nonce_lock = 0

\* C30: a call whose nonce read failed sleeps the 2 s with the lock held and
\* reads once more; the step that ends this sleep takes the call either on
\* with the nonce that was read or, when the second read fails too, to the
\* except clause with the error of the read, the lock released and no
\* transaction broadcast: there is no third read in the attempt.  From the
\* except clause the call goes on to the next attempt at once if one
\* remains.
C30_NonceReadRetry ==
    [][\A c \in Calls :
          /\ pc[c] = "nonce_sleep" => nonce_lock = c
          /\ (pc[c] = "nonce_read" /\ pc'[c] # "nonce_read") =>
                 pc'[c] \in {"nonce_sleep", "build", "backoff"}
          /\ (pc[c] = "nonce_sleep" /\ <<pc[c], waited[c], rpc[c]>>
                                          # <<pc'[c], waited'[c], rpc'[c]>>) =>
                 /\ waited'[c] = waited[c] + nonce_read_sleep
                 /\ nonce_lock' = 0
                 /\ \/ /\ pc'[c] \in {"build", "backoff"}
                       /\ nonce'[c] = PendingCount /\ <<c, nonce'[c]>> \in issued'
                    \/ /\ pc'[c] = "except" /\ exc'[c] = MsgConnection
                       /\ txs' = txs /\ issued' = issued /\ attempt'[c] = attempt[c]
          /\ (pc[c] = "except" /\ exc[c] = MsgConnection /\ pc'[c] # "except") =>
                 IF attempt[c] < MAX_RETRIES - 1
                 THEN pc'[c] = "attempt" /\ attempt'[c] = attempt[c] + 1
                 ELSE pc'[c] = "raise"]_vars

\* Both reads of attempt 0 failed; the call is at the start of attempt 1
\* and has made no ledger call but the status checks and the reads.
C30_Witness ==
    \E c \in Calls :
        /\ pc[c] = "attempt" /\ attempt[c] = 1 /\ exc[c] = MsgConnection
        /\ rpc[c] = {"status", "balance", "nonce"}
        /\ waited[c] = nonce_read_sleep /\ nonce_lock = 0

\* C31: the nonce of a call changes only in the step that ends the nonce
\* read of an attempt, and then to the ledger's pending transaction count
\* of that moment; every attempt enters its part after the read (backoff,
\* build) by such a step, the attempt after a nonce-contention error
\* included; the nonce does not change between the read and the broadcast,
\* and the transaction broadcast carries it.  When store_metadata is left
\* the nonce is gone.
C31_FreshNonce ==
    [][\A c \in Calls :
          /\ nonce'[c] # nonce[c] =>
                 \/ /\ pc[c] \in {"nonce_read", "nonce_sleep"}
                    /\ pc'[c] \in {"build", "backoff"}
                    /\ nonce'[c] = PendingCount
                 \/ pc'[c] = "done" /\ nonce'[c] = NoNonce
          /\ (pc[c] \notin {"build", "backoff"} /\ pc'[c] \in {"build", "backoff"}) =>
                 /\ pc[c] \in {"nonce_read", "nonce_sleep"}
                 /\ nonce'[c] = PendingCount /\ "nonce" \in rpc'[c]
                 /\ <<c, nonce'[c]>> \in issued'
          /\ (pc[c] \in {"backoff", "build", "send"} /\ pc'[c] # "done") =>
                 nonce'[c] = nonce[c]
          /\ (pc[c] = "send" /\ pc'[c] = "receipt_wait") =>
                 /\ Len(txs') = Len(txs) + 1
                 /\ txs'[Len(txs')].call = c
                 /\ BaseNonce + Len(txs') - 1 = nonce[c]]_vars

\* A call whose earlier attempt ended with "nonce too low" is at the
\* broadcast of a later attempt with a nonce other than the one it had read
\* before: the count the ledger reported in this attempt.
C31_Witness ==
    \E c \in Calls :
        /\ pc[c] = "send" /\ attempt[c] > 0 /\ last_error[c] = MsgNonceTooLow
        /\ nonce[c] = PendingCount
        /\ \E n \in BaseNonce .. nonce[c] - 1 : <<c, n>> \in issued

\* upload_metadata of call c raised because the content upload failed.
ContentUploadFailed(c) ==
    result[c] = UploadError(<<"Failed to upload to Pinata">>)

\* C32: a call whose content upload failed has not entered store_metadata
\* (no ledger RPC, no attempt, no outcome of store_metadata) and none of
\* the node's transactions is its own.  A call uploads content and enters
\* store_metadata only in the step in which it arrives, so at most once:
\* it never returns to its start, its CID and its record are assigned
\* there and nowhere else, the content store grows only when a call
\* arrives, the outcomes of store_metadata and of upload_metadata are set
\* once, and a call that has ended takes no further step.
C32_NoRecovery ==
    /\ [](\A c \in Calls :
              ContentUploadFailed(c) =>
                  /\ pc[c] = "done" /\ cid[c] = EmptyCid
                  /\ rpc[c] = {} /\ started[c] = 0 /\ sres[c] = NoOutcome
                  /\ TxsOf(c) = {})
    /\ [][\A c \in Calls :
             /\ pc'[c] = "idle" => pc[c] = "idle"
             /\ pc[c] # "idle" =>
                    /\ cid'[c] = cid[c] /\ rec'[c] = rec[c]
                    /\ "status" \in rpc[c] <=> "status" \in rpc'[c]
             /\ ipfs' # ipfs =>
                    /\ \E d \in Calls : pc[d] = "idle" /\ pc'[d] # "idle"
                                         /\ ipfs' = upload_json(ipfs, rec'[d])
                    /\ Cardinality({d \in Calls : pc'[d] # pc[d]}) = 1
             /\ sres'[c] # sres[c] => sres[c] = NoOutcome /\ pc'[c] = "done"
             /\ result'[c] # result[c] => result[c] = NoResult /\ pc'[c] = "done"
             /\ pc[c] = "done" =>
                    /\ pc'[c] = "done" /\ rpc'[c] = rpc[c]
                    /\ started'[c] = started[c]
                    /\ TxsOf(c)' = TxsOf(c)]_vars

\* One call's content upload has failed and the call has ended without a
\* transaction; the other call's only transaction is confirmed.
C32_Witness ==
    \E c, d \in Calls :
        /\ ContentUploadFailed(c) /\ pc[c] = "done" /\ TxsOf(c) = {}
        /\ StoreReturned(d) /\ Cardinality(TxsOf(d)) = 1
        /\ \A i \in TxsOf(d) : txs[i].status = "ok"

\* The transactions of call c the node has mined with effect.
ConfirmedOf(c) == {i \in TxsOf(c) : txs[i].status = "ok"}

FirstAttemptAfterRead(c) == attempt[c] = 0 /\ pc[c] \in {"build", "send"}

\* C34: a call that is in its first attempt between the nonce read and the
\* broadcast holds the event loop, so no other call is between its own
\* read and broadcast or takes any step, and the nonce it holds is still
\* the ledger's pending transaction count: the first attempt of a call
\* never comes to its broadcast with a nonce that another call's
\* transaction has used.
C34_FirstAttemptAtomic ==
    \A c \in Calls :
        FirstAttemptAfterRead(c) =>
            /\ running = c
            /\ nonce[c] = PendingCount
            /\ \A i \in DOMAIN txs : BaseNonce + i - 1 # nonce[c]
            /\ \A d \in Calls \ {c} : ~FirstAttemptAfterRead(d)

\* Two calls have each broadcast the transaction of their first attempt,
\* with the nonces BaseNonce and BaseNonce + 1, and wait for the receipts.
C34_Witness ==
    \E c, d \in Calls :
        /\ c # d /\ started[c] = 1 /\ started[d] = 1
        /\ pc[c] = "receipt_wait" /\ pc[d] = "receipt_wait"
        /\ nonce[c] = BaseNonce /\ nonce[d] = BaseNonce + 1
        /\ txs[txh[c]].call = c /\ txs[txh[d]].call = d /\ txh[c] # txh[d]
        /\ waited[c] = 0 /\ waited[d] = 0

\* ------------------------------------------------ the calls under fairness
\* NumCalls concurrent uploads of valid records; the environment fails at
\* most MaxFaults + 1 times, enough for both nonce reads of an attempt to
\* fail while another call waits for the lock.
InitLive ==
    /\ InitCommon /\ callers = Calls
    /\ inputs = {r \in Records : r.body = "s1"}
    /\ limited = TRUE /\ budget = MaxFaults + 1
    /\ config = "ok"
    /\ NoFees /\ NoRequests

\* The node mines every transaction it holds, so every receipt wait ends
\* with a receipt.
NextLive ==
    \/ \E c \in Calls : UploadStart(c)
    \/ \E c \in Calls : UploadContentFails(c)
    \/ \E c \in Calls : AcquireLock(c)
    \/ \E c \in Calls : LockGranted(c)
    \/ \E c \in Calls : GetFreshNonce(c)
    \/ \E c \in Calls : GetFreshNonceFails(c)
    \/ \E c \in Calls : NonceRetry(c)
    \/ \E c \in Calls : NonceRetryFails(c)
    \/ \E c \in Calls : Backoff(c)
    \/ \E c \in Calls : Simulate(c)
    \/ \E c \in Calls : SimulateReverts(c)
    \/ \E c \in Calls : SimulateFails(c)
    \/ \E c \in Calls : Send(c)
    \/ \E c \in Calls : SendStale(c)
    \/ \E c \in Calls : SendFails(c)
    \/ \E c \in Calls : Receipt(c)
    \/ \E c \in Calls : Except(c)
    \/ \E c \in Calls : RetrySleep(c)
    \/ \E c \in Calls : RaiseExhausted(c)
    \/ Mine

\* The steps of call c.
CallStep(c) ==
    \/ UploadStart(c) \/ UploadContentFails(c)
    \/ AcquireLock(c) \/ LockGranted(c)
    \/ GetFreshNonce(c) \/ GetFreshNonceFails(c)
    \/ NonceRetry(c) \/ NonceRetryFails(c)
    \/ Backoff(c)
    \/ Simulate(c) \/ SimulateReverts(c) \/ SimulateFails(c)
    \/ Send(c) \/ SendStale(c) \/ SendFails(c)
    \/ Receipt(c)
    \/ Except(c) \/ RetrySleep(c) \/ RaiseExhausted(c)

\* Every ledger RPC returns or raises, every sleep ends, the event loop
\* runs a call that can run, and the node mines what it holds.
Fairness == (\A c \in Calls : WF_vars(CallStep(c))) /\ WF_vars(Mine)

SpecLive == InitLive /\ [][NextLive]_vars /\ Fairness

C36_Original ==
    /\ (dl.op = "download" /\ dl.key \notin DOMAIN ledger) =>
           dl.kind = "raise" /\ dl.gets = <<>>
    /\ \A i \in DOMAIN dl.gets : dl.gets[i] # EmptyCid

\* The upload route: the HTTP status it answers with, given what
\* StorageService.upload_metadata returned or raised.
upload_route(res) ==
    IF res.kind = "return" THEN 200
    ELSE IF res.type = "ValidationError" THEN 400
    ELSE 500

\* C37 as stated: an upload whose payload validate_data_payload refuses is
\* answered with HTTP 400.
C37_Original ==
    \A c \in Calls :
        (pc[c] = "done" /\ rec[c] \in InvalidRecords) =>
            upload_route(result[c]) = 400

\* ------------------------------------------- the content store's timeouts
\* requests.post(..., timeout=self.timeout) of upload_json.
upload_timeout(T) == T

download_timeoutUncapped(T) == T

\* download_timeout = min(10, self.timeout) of download_json.
download_timeout(T) == Min(download_timeout_cap, T)

\* A service configured with some timeout of 1 .. MaxTimeout seconds.
InitTimeout ==
    /\ InitCommon /\ callers = {} /\ inputs = {} /\ limited = TRUE /\ budget = 0
    /\ config = "ok"
    /\ NoFees
    /\ IPFS_TIMEOUT \in 1 .. MaxTimeout /\ timeout_log = <<>>

\* upload_json sends its request.
UploadRequest ==
    /\ Len(timeout_log) < MaxRequests
    /\ timeout_log' = Append(timeout_log,
                             [op |-> "upload", seconds |-> upload_timeout(IPFS_TIMEOUT)])
    /\ UNCHANGED <<running, nonce_lock, budget, nodeVars, ipfs, callVars, histVars,
                   envVars, dl, waited, since_failure, feeVars, IPFS_TIMEOUT>>

\* download_json sends its request.
DownloadRequest ==
    /\ Len(timeout_log) < MaxRequests
    /\ timeout_log' = Append(timeout_log,
                             [op |-> "download", seconds |-> download_timeout(IPFS_TIMEOUT)])
    /\ UNCHANGED <<running, nonce_lock, budget, nodeVars, ipfs, callVars, histVars,
                   envVars, dl, waited, since_failure, feeVars, IPFS_TIMEOUT>>

NextTimeout == UploadRequest \/ DownloadRequest

SpecTimeout == InitTimeout /\ [][NextTimeout]_vars

====
